---- MODULE Spec2Model ----
(***************************************************************************)
(* Model of the face-tracking turret host software:                        *)
(*   - HardwareAPI (src/hardware/api.py): the serial link with reconnect,  *)
(*     rate limiting and write retries;                                    *)
(*   - Brain (src/brain.py): the controller that accumulates arm_x/arm_y   *)
(*     and emits "x <v>", "y <v>" and the fire flag;                       *)
(*   - the driver loop of src/main.py;                                     *)
(*   - the detection process of src/vision/pipeline.py and the shared      *)
(*     state of src/vision/runner.py.                                      *)
(*                                                                         *)
(* Time is counted in milliseconds; the constants that the source gives in *)
(* seconds are given here in ms.  The source keeps time stamps             *)
(* (last_message, _last_reconnect_attempt, last_heartbeat) and only ever   *)
(* reads them as "time.time() - stamp < constant", so the model keeps the  *)
(* elapsed time since each stamp, which time.sleep and the waits of the    *)
(* caller advance; an elapsed time stops growing at the constant it is     *)
(* compared with.                                                          *)
(* Angles are fixed-point integers, DEG units per degree; pixel positions  *)
(* are fixed-point integers, PX units per pixel.  The inputs of Brain are  *)
(* chosen so that every division of the source is exact in these units.    *)
(* Of the rounding of IEEE doubles the model keeps what the properties     *)
(* depend on: a quotient loses the same for an argument and its opposite   *)
(* (Quot), and the arm positions are rounded to floats whose step doubles  *)
(* between 180 and 360 degrees (Fl).                                       *)
(***************************************************************************)
EXTENDS Integers, Sequences, FiniteSets, TLC

VARIABLES
    api,        \* HardwareAPI fields: connected, ser, and the time since
                \* last_message and since _last_reconnect_attempt
    call,       \* the last send_message call: arguments, transport events, result
    brain,      \* Brain fields: arm_x, arm_y, is_shooting and the transient fields
    step,       \* the Brain.run call in progress or last finished
    pc,         \* position of the caller (inside Brain.run / the driver loop)
    drv,        \* locals of the driver loop of main.py
    nruns,      \* number of Brain.run calls with detections made so far
    obs,        \* observer: what was seen on the transport so far
    fn,         \* a function applied on its own: its arguments and its results
    pipe        \* the detection process, the shared state and its reader

vars == <<api, call, brain, step, pc, drv, nruns, obs, fn, pipe>>

----------------------------------------------------------------------------
(* Bounds of the model *)

\* Largest number of frames the detection process captures.
MaxFrames == 2

\* Largest number of failing attempts before an attempt that succeeds.
MaxTransientFails == 1
\* Largest number of Brain.run calls with a non-empty detection list.
MaxRuns == 2

----------------------------------------------------------------------------
(* src/hardware/api.py: constants (times in ms) *)

RECONNECT_RETRY_DELAY_SEC == 2000
RECONNECT_MAX_ATTEMPTS == 5
RECONNECT_BACKOFF_SEC == 5000
DEFAULT_RATE_LIMIT_MS == 100
WRITE_RETRIES == 10
WRITE_RETRY_DELAY_SEC == 200
\* time.sleep(2.5) after a successful open
SETTLE_DELAY_SEC == 2500
\* time.sleep(0.3) between the reconnect and the last write of send_message
POST_RECONNECT_DELAY_SEC == 300

None == 0 - 1

Min(a, b) == IF a < b THEN a ELSE b
Max(a, b) == IF a > b THEN a ELSE b

\* n events of kind e, the i-th at time t + (i-1)*d after the start of the call
Events(e, n, t, d) == [i \in 1..n |-> [e |-> e, t |-> t + (i - 1) * d]]

Count(ev, e) == Cardinality({i \in 1..Len(ev) : ev[i].e = e})

----------------------------------------------------------------------------
(* The transport: what the serial port does during one call.               *)
(*   fails: number of open attempts that fail before one succeeds;         *)
(*          RECONNECT_MAX_ATTEMPTS when every attempt fails;               *)
(*   kind : the exception of the last failed attempt when all fail:        *)
(*          "busy"   SerialException/OSError whose text has "busy"/errno 16*)
(*          "serial" any other SerialException or OSError                  *)
(*          "other"  an exception of another class                         *)

OpenOutcomes ==
    {[fails |-> k, kind |-> "none"] :
        k \in 0..Min(MaxTransientFails, RECONNECT_MAX_ATTEMPTS - 1)}
    \cup {[fails |-> RECONNECT_MAX_ATTEMPTS, kind |-> e] :
        e \in {"busy", "serial", "other"}}

NoOpen == [fails |-> 0, kind |-> "none"]

(*   wfails: number of ser.write calls of the retry loop that raise        *)
(*           SerialException/OSError before the next one;                  *)
(*   wother: the next one raises an exception of another class;            *)
(*   post  : the opens of the reconnect after WRITE_RETRIES failures;      *)
(*   tailw : the write after that reconnect: "ok", "serial" or "other".    *)
WriteOutcomes ==
    {[wfails |-> n, wother |-> b, post |-> NoOpen, tailw |-> "ok"] :
        n \in 0..Min(MaxTransientFails, WRITE_RETRIES - 1), b \in BOOLEAN}
    \cup {[wfails |-> WRITE_RETRIES, wother |-> FALSE, post |-> p, tailw |-> w] :
        p \in {o \in OpenOutcomes : o.fails < RECONNECT_MAX_ATTEMPTS},
        w \in {"ok", "serial", "other"}}
    \cup {[wfails |-> WRITE_RETRIES, wother |-> FALSE, post |-> p, tailw |-> "ok"] :
        p \in {o \in OpenOutcomes : o.fails = RECONNECT_MAX_ATTEMPTS}}

\* The transport raises only SerialException or OSError during the call.
OnlySerialErrors(pre, w) ==
    /\ pre.kind # "other"
    /\ ~w.wother
    /\ w.post.kind # "other"
    /\ w.tailw # "other"

----------------------------------------------------------------------------
(* Time passing: d ms later.  since_message is only compared with          *)
(* rate_limit_ms and since_reconnect_attempt with RECONNECT_BACKOFF_SEC.   *)
Later(h, d) ==
    [h EXCEPT !.since_message = Min(@ + d, h.rate_limit_ms),
              !.since_reconnect_attempt = Min(@ + d, RECONNECT_BACKOFF_SEC)]

\* mutant: _reconnect returns as soon as the port is open
Reconnect_NoSettle(h, t, o) ==
    LET closing == IF h.ser THEN <<[e |-> "close", t |-> t]>> ELSE <<>>
        head == <<[e |-> "reconnect", t |-> t]>> \o closing
    IN  IF o.fails < RECONNECT_MAX_ATTEMPTS
        THEN LET tOpen == t + o.fails * RECONNECT_RETRY_DELAY_SEC
             IN  [h |-> [h EXCEPT !.connected = TRUE, !.ser = TRUE,
                                  !.since_message = 0,
                                  !.since_reconnect_attempt = 0],
                  t |-> tOpen,
                  ev |-> head
                         \o Events("open_fail", o.fails, t, RECONNECT_RETRY_DELAY_SEC)
                         \o <<[e |-> "open_ok", t |-> tOpen]>>,
                  raised |-> "none"]
        ELSE LET d == (RECONNECT_MAX_ATTEMPTS - 1) * RECONNECT_RETRY_DELAY_SEC
             IN  [h |-> Later([h EXCEPT !.ser = FALSE], d),
                  t |-> t + d,
                  ev |-> head
                         \o Events("open_fail", RECONNECT_MAX_ATTEMPTS, t,
                                   RECONNECT_RETRY_DELAY_SEC),
                  raised |-> o.kind]

\* mutant: one more open after the last attempt allowed has failed
Reconnect_OneMoreOpen(h, t, o) ==
    LET closing == IF h.ser THEN <<[e |-> "close", t |-> t]>> ELSE <<>>
        head == <<[e |-> "reconnect", t |-> t]>> \o closing
    IN  IF o.fails < RECONNECT_MAX_ATTEMPTS
        THEN LET tOpen == t + o.fails * RECONNECT_RETRY_DELAY_SEC
             IN  [h |-> Later([h EXCEPT !.connected = TRUE, !.ser = TRUE,
                                        !.since_message = 0,
                                        !.since_reconnect_attempt = 0],
                              SETTLE_DELAY_SEC),
                  t |-> tOpen + SETTLE_DELAY_SEC,
                  ev |-> head
                         \o Events("open_fail", o.fails, t, RECONNECT_RETRY_DELAY_SEC)
                         \o <<[e |-> "open_ok", t |-> tOpen]>>,
                  raised |-> "none"]
        ELSE LET d == (RECONNECT_MAX_ATTEMPTS - 1) * RECONNECT_RETRY_DELAY_SEC
             IN  [h |-> Later([h EXCEPT !.ser = FALSE], d),
                  t |-> t + d,
                  ev |-> head
                         \o Events("open_fail", RECONNECT_MAX_ATTEMPTS + 1, t,
                                   RECONNECT_RETRY_DELAY_SEC),
                  raised |-> o.kind]

(* HardwareAPI._reconnect: close the port, then up to                      *)
(* RECONNECT_MAX_ATTEMPTS opens RECONNECT_RETRY_DELAY_SEC apart.           *)
(* h: the fields, t: the time since the start of the call,                 *)
(* o: what the opens do (an OpenOutcomes).                                 *)
(* Result: the fields, the time at the end, the transport events and the   *)
(* exception raised ("none" when the port opened).                         *)
Reconnect(h, t, o) ==
    LET closing == IF h.ser THEN <<[e |-> "close", t |-> t]>> ELSE <<>>
        head == <<[e |-> "reconnect", t |-> t]>> \o closing
    IN  IF o.fails < RECONNECT_MAX_ATTEMPTS
        THEN LET tOpen == t + o.fails * RECONNECT_RETRY_DELAY_SEC
             IN  [h |-> Later([h EXCEPT !.connected = TRUE, !.ser = TRUE,
                                        !.since_message = 0,
                                        !.since_reconnect_attempt = 0],
                              SETTLE_DELAY_SEC),
                  t |-> tOpen + SETTLE_DELAY_SEC,
                  ev |-> head
                         \o Events("open_fail", o.fails, t, RECONNECT_RETRY_DELAY_SEC)
                         \o <<[e |-> "open_ok", t |-> tOpen]>>,
                  raised |-> "none"]
        ELSE LET d == (RECONNECT_MAX_ATTEMPTS - 1) * RECONNECT_RETRY_DELAY_SEC
             IN  [h |-> Later([h EXCEPT !.ser = FALSE], d),
                  t |-> t + d,
                  ev |-> head
                         \o Events("open_fail", RECONNECT_MAX_ATTEMPTS, t,
                                   RECONNECT_RETRY_DELAY_SEC),
                  raised |-> o.kind]

\* mutant: the backoff compared with the delay between two opens
InBackoff_RetryDelay(h) == h.since_reconnect_attempt < RECONNECT_RETRY_DELAY_SEC

\* mutants: the rate limit with <=, and applied whatever the flag
RateLimited_Inclusive(h, rate_limit) ==
    rate_limit /\ h.since_message <= h.rate_limit_ms
RateLimited_IgnoresFlag(h, rate_limit) == h.since_message < h.rate_limit_ms

\* mutant: a busy port is re-raised as the SerialException it is
OnReconnectError_Reraises(kind) == IF kind = "busy" THEN "SerialException" ELSE "HDE"

\* mutant: the failed last write leaves the link marked connected
AfterLastWrite_StaysConnected(h, tailw) ==
    IF tailw = "other" THEN [h EXCEPT !.since_reconnect_attempt = 0] ELSE h

(* The exceptions that leave the link: the class, the message, and the     *)
(* text of another exception that the message embeds ("none" when none).   *)
NoExc == [class |-> "none", text |-> "none", detail |-> "none"]
Exc(class, text, detail) == [class |-> class, text |-> text, detail |-> detail]

(* _reconnect, lines 81-89: what it raises when every open failed: a new   *)
(* SerialException "Port ... is in use" when the last error reads busy,    *)
(* else the last error itself.                                             *)
OpenError(kind) ==
    CASE kind = "busy" -> Exc("SerialException", "port_in_use", "original")
      [] kind = "serial" -> Exc("SerialException", "original", "none")
      [] OTHER -> Exc("other", "original", "none")

(* send_message, line 104: within the backoff since the last recorded      *)
(* reconnect attempt.                                                      *)
InBackoff(h) == h.since_reconnect_attempt < RECONNECT_BACKOFF_SEC

(* send_message, line 118: the send is dropped by the rate limit.          *)
RateLimited(h, rate_limit) == rate_limit /\ h.since_message < h.rate_limit_ms

(* send_message, lines 108-115: what leaves send_message when the          *)
(* reconnect of a disconnected link raised an exception of this kind.      *)
OnReconnectError(kind) == "HDE"

(* send_message, lines 142-155: the fields after the write that follows    *)
(* the reconnect: (SerialException, OSError) marks the link disconnected,  *)
(* any other exception records a reconnect attempt.                        *)
AfterLastWrite(h, tailw) ==
    IF tailw = "ok" THEN h
    ELSE IF tailw = "serial" THEN [h EXCEPT !.connected = FALSE]
    ELSE [h EXCEPT !.since_reconnect_attempt = 0]

(* send_message, lines 137-155: all WRITE_RETRIES writes failed; mark the  *)
(* link disconnected, reconnect, wait, and write once more.                *)
AfterRetries(h, t, ev, w) ==
    LET r == Reconnect([h EXCEPT !.connected = FALSE], t, w.post)
        tT == r.t + POST_RECONNECT_DELAY_SEC
        hT == Later(r.h, POST_RECONNECT_DELAY_SEC)
    IN  IF r.raised \in {"busy", "serial"}
        THEN [h |-> [r.h EXCEPT !.connected = FALSE], t |-> r.t,
              ev |-> ev \o r.ev, result |-> "HDE", why |-> "reconnect_failed",
              exc |-> Exc("HDE", "reconnected_but_write_still_failed", "none")]
        ELSE IF r.raised = "other"
        THEN [h |-> [r.h EXCEPT !.since_reconnect_attempt = 0], t |-> r.t,
              ev |-> ev \o r.ev, result |-> "HDE", why |-> "reconnect_failed",
              exc |-> Exc("HDE", "reconnect_failed_retry_when_reconnected",
                          OpenError(r.raised).text)]
        ELSE [h |-> AfterLastWrite(hT, w.tailw), t |-> tT,
              ev |-> ev \o r.ev
                     \o <<[e |-> CASE w.tailw = "ok" -> "write_ok"
                                   [] w.tailw = "serial" -> "write_fail"
                                   [] OTHER -> "write_raise",
                           t |-> tT]>>,
              result |-> IF w.tailw = "ok" THEN "return" ELSE "HDE",
              why |-> IF w.tailw = "ok" THEN "written_after_reconnect"
                      ELSE "write_failed_after_reconnect",
              exc |-> CASE w.tailw = "ok" -> NoExc
                        [] w.tailw = "serial" ->
                             Exc("HDE", "reconnected_but_write_still_failed", "none")
                        [] OTHER ->
                             Exc("HDE", "reconnect_failed_retry_when_reconnected",
                                 "original")]

(* send_message, lines 116-136: the rate limit and the write retries.      *)
(* t, ev: the time and the transport events of the call so far;            *)
(* w: a WriteOutcomes.                                                     *)
(* result: "return", "HDE" (HardwareDisconnectedError) or "other" (an      *)
(* exception of another class leaves send_message).                        *)
SendWrite(h, t, ev, rate_limit, w) ==
    IF RateLimited(h, rate_limit)
    THEN [h |-> h, t |-> t, ev |-> ev, result |-> "return", why |-> "rate_limited",
          exc |-> NoExc]
    ELSE IF w.wfails < WRITE_RETRIES
    THEN LET d == w.wfails * WRITE_RETRY_DELAY_SEC
             evs == ev \o Events("write_fail", w.wfails, t, WRITE_RETRY_DELAY_SEC)
         IN  IF w.wother
             THEN [h |-> Later(h, d), t |-> t + d,
                   ev |-> Append(evs, [e |-> "write_raise", t |-> t + d]),
                   result |-> "other", why |-> "write_raised",
                   exc |-> Exc("other", "original", "none")]
             ELSE [h |-> IF rate_limit
                         THEN [Later(h, d) EXCEPT !.since_message = 0]
                         ELSE Later(h, d),
                   t |-> t + d,
                   ev |-> Append(evs, [e |-> "write_ok", t |-> t + d]),
                   result |-> "return", why |-> "written", exc |-> NoExc]
    ELSE LET d == (WRITE_RETRIES - 1) * WRITE_RETRY_DELAY_SEC
         IN  AfterRetries(Later(h, d), t + d,
                          ev \o Events("write_fail", WRITE_RETRIES, t,
                                       WRITE_RETRY_DELAY_SEC),
                          w)

(* HardwareAPI.send_message: on a disconnected link, fail within the       *)
(* backoff, else reconnect first; then the rate limit and the writes.      *)
(* pre: an OpenOutcomes, w: a WriteOutcomes.                               *)
SendMessage(h, rate_limit, pre, w) ==
    IF ~h.connected
    THEN IF InBackoff(h)
         THEN [h |-> h, t |-> 0, ev |-> <<>>, result |-> "HDE", why |-> "backoff",
               exc |-> Exc("HDE", "next_reconnect_in_a_few_seconds", "none")]
         ELSE LET r == Reconnect(h, 0, pre)
              IN  IF r.raised # "none"
                  THEN [h |-> [r.h EXCEPT !.since_reconnect_attempt = 0],
                        t |-> r.t, ev |-> r.ev,
                        result |-> OnReconnectError(r.raised),
                        why |-> "reconnect_failed",
                        exc |-> Exc(OnReconnectError(r.raised),
                                    "reconnect_failed_device_unplugged",
                                    OpenError(r.raised).text)]
                  ELSE SendWrite(r.h, r.t, r.ev, rate_limit, w)
    ELSE SendWrite(h, 0, <<>>, rate_limit, w)

\* The opens that matter to a send started in h: none unless it reconnects first.
PreOutcomes(h) ==
    IF ~h.connected /\ ~InBackoff(h) THEN OpenOutcomes ELSE {NoOpen}

(* HardwareAPI.__init__ with a port that opens at the first attempt: the   *)
(* fields when _reconnect returns, SETTLE_DELAY_SEC after it set both      *)
(* time stamps.                                                            *)
ApiInit ==
    Later([connected |-> TRUE, ser |-> TRUE, since_message |-> 0,
           since_reconnect_attempt |-> 0, rate_limit_ms |-> DEFAULT_RATE_LIMIT_MS],
          SETTLE_DELAY_SEC)

\* mutant: close() drops the handle and leaves the link marked connected
Close_StaysConnected(h, closeRaises) ==
    [h EXCEPT !.ser = IF closeRaises THEN h.ser ELSE FALSE]

(* HardwareAPI.close: ser.close() may raise, which leaves the handle set.  *)
Close(h, closeRaises) ==
    [h EXCEPT !.connected = FALSE,
              !.ser = IF closeRaises THEN h.ser ELSE FALSE]

----------------------------------------------------------------------------
(* Observation of the calls *)

WriteEvents == {"write_ok", "write_fail", "write_raise"}
Writes(ev) == Count(ev, "write_ok") + Count(ev, "write_fail") + Count(ev, "write_raise")
Written(ev) == Count(ev, "write_ok") > 0

\* Observer: the time since the last rate-limited send that the transport
\* accepted (stops growing at rate_limit_ms), and the time since the port
\* was last opened (stops growing at SETTLE_DELAY_SEC).
ObsInit ==
    [since_written |-> DEFAULT_RATE_LIMIT_MS, since_open |-> SETTLE_DELAY_SEC,
     since_try |-> SETTLE_DELAY_SEC]

ObsLater(o, d) ==
    [o EXCEPT !.since_written = Min(@ + d, DEFAULT_RATE_LIMIT_MS),
              !.since_open = Min(@ + d, SETTLE_DELAY_SEC),
              !.since_try = Min(@ + d, RECONNECT_BACKOFF_SEC)]

\* the times, within a call, of the open attempts, failed or not
TryTimes(ev) ==
    {ev[i].t : i \in {j \in 1..Len(ev) : ev[j].e \in {"open_ok", "open_fail"}}}

\* the latest of a set of times
Latest(times) == CHOOSE m \in times : \A k \in times : k <= m

\* the times, within a call, of the opens that succeeded
OpenTimes(ev) == {ev[i].t : i \in {j \in 1..Len(ev) : ev[j].e = "open_ok"}}

\* after a send_message call with result r
ObsAfter(o, rate_limit, r) ==
    LET aged == IF rate_limit /\ Written(r.ev)
                THEN [o EXCEPT !.since_written = 0]
                ELSE ObsLater(o, r.t)
    IN  [aged EXCEPT
           !.since_open =
               IF OpenTimes(r.ev) = {} THEN Min(o.since_open + r.t, SETTLE_DELAY_SEC)
               ELSE Min(r.t - Latest(OpenTimes(r.ev)), SETTLE_DELAY_SEC),
           !.since_try =
               IF TryTimes(r.ev) = {} THEN Min(o.since_try + r.t, RECONNECT_BACKOFF_SEC)
               ELSE Min(r.t - Latest(TryTimes(r.ev)), RECONNECT_BACKOFF_SEC)]

\* The call ended in a reconnect all of whose opens failed on a busy port
\* (the reconnect of a disconnected link, or the one after the retries).
EndedBusy(pre, w, r) ==
    /\ r.ev # <<>>
    /\ r.ev[Len(r.ev)].e = "open_fail"
    /\ (IF Count(r.ev, "write_fail") = 0 THEN pre.kind ELSE w.post.kind) = "busy"

\* the same opens failing for a reason other than a busy port
Generic(o) == IF o.kind = "busy" THEN [o EXCEPT !.kind = "serial"] ELSE o

\* The record kept of a send_message call: its arguments, the fields and the
\* observer before it, what the transport did, and how it ended after t ms.
CallOf(op, message, rate_limit, h, o, pre, w, r) ==
    [op |-> op, message |-> message, rate_limit |-> rate_limit,
     pre |-> h, obs |-> o, t |-> r.t, ev |-> r.ev,
     result |-> r.result, why |-> r.why,
     serialOnly |-> OnlySerialErrors(pre, w),
     firstWriteOk |-> (w.wfails = 0 /\ ~w.wother),
     exc |-> r.exc,
     busy |-> EndedBusy(pre, w, r),
     excGeneric |-> IF EndedBusy(pre, w, r)
                    THEN SendMessage(h, rate_limit, Generic(pre),
                                     [w EXCEPT !.post = Generic(@)]).exc
                    ELSE r.exc]

NoCall ==
    [op |-> "none", message |-> <<"none", 0>>, rate_limit |-> FALSE,
     pre |-> ApiInit, obs |-> ObsInit, t |-> 0, ev |-> <<>>,
     result |-> "none", why |-> "none",
     serialOnly |-> TRUE, firstWriteOk |-> TRUE,
     exc |-> NoExc, busy |-> FALSE, excGeneric |-> NoExc]

IsSend == call.op \in {"send_message", "send_heartbeat"}

\* One send_message call by whoever holds the link.
Send(op, message, rate_limit) ==
    \E pre \in PreOutcomes(api), w \in WriteOutcomes :
        LET r == SendMessage(api, rate_limit, pre, w)
        IN  /\ api' = r.h
            /\ obs' = ObsAfter(obs, rate_limit, r)
            /\ call' = CallOf(op, message, rate_limit, api, obs, pre, w, r)

----------------------------------------------------------------------------
(* src/vision/fisheye_utils.py and src/brain.py: numbers                   *)
(*   pixels     : PX units per pixel                                       *)
(*   normalized : NORM units for 1.0 (centroid_x, centroid_y)              *)
(*   target     : HUNDRED units for 1.0 (target_x, target_y as given)      *)
(*   degrees    : DEG units per degree                                     *)
(*   crop       : center_crop_fraction in percent, None when absent        *)

WIDTH == 3840
HEIGHT == 1920
MAX_THETA_DEG == 90
RADIUS_PX == WIDTH \div 3

ARM_X_LO == -180
ARM_X_HI == 180
ARM_Y_LO == -20
ARM_Y_HI == 90

PX == 2 * 5
NORM == 2 * WIDTH
HUNDRED == 10 * 10
DEG == PX * RADIUS_PX

Abs(a) == IF a < 0 THEN 0 - a ELSE a

(* The quotient of a by b > 0 as floating point has it: what is lost in    *)
(* rounding is the same for a and for -a (here the fraction is dropped).   *)
Quot(a, b) == IF a < 0 THEN 0 - ((0 - a) \div b) ELSE a \div b

\* mutant: the quotients are rounded down, whatever the sign
offset_to_angle_RoundsDown(delta_pixels, radius_px, max_theta_deg, crop_fraction) ==
    LET f == IF crop_fraction # None THEN crop_fraction ELSE HUNDRED
    IN  IF radius_px > 0
        THEN (((delta_pixels * DEG) \div (PX * radius_px)) * max_theta_deg * f)
                 \div HUNDRED
        ELSE 0

(* fisheye_utils.offset_to_angle: (delta_pixels / radius_px) * max_theta   *)
(* * f, 0.0 when the radius is not positive.  delta in PX units, the       *)
(* result in DEG units.                                                    *)
offset_to_angle(delta_pixels, radius_px, max_theta_deg, crop_fraction) ==
    LET f == IF crop_fraction # None THEN crop_fraction ELSE HUNDRED
    IN  IF radius_px > 0
        THEN Quot(Quot(delta_pixels * DEG, PX * radius_px) * max_theta_deg * f,
                  HUNDRED)
        ELSE 0

(* fisheye_utils.circle_radius_px_from_frame: frame_width * (1.0 / 3.0),   *)
(* in PX units.                                                            *)
circle_radius_px_from_frame(frame_width, frame_height) ==
    Quot(frame_width * PX, 3)

(* Brain._target_px (w = WIDTH, HEIGHT) and Brain.run lines 187-188 (w =   *)
(* the frame size): a target <= 1.0 is a fraction of w, else pixels.       *)
TargetPx(target, w) ==
    IF target <= HUNDRED THEN (target * w * PX) \div HUNDRED
    ELSE (target * PX) \div HUNDRED

(* The arm positions are Python floats.  A float carries a fixed number of *)
(* significant bits, so the step between two neighbouring floats doubles   *)
(* from one power of two to the next: here floats of FloatBits bits, whose *)
(* step is one DEG unit up to 2^FloatBits units (327.68 degrees, between   *)
(* 180 and 360 degrees as 256 is) and two units above it.                  *)
FloatBits == 22

RECURSIVE UlpFrom(_, _)
UlpFrom(a, u) == IF a < 2 ^ FloatBits THEN u ELSE UlpFrom(a \div 2, 2 * u)

\* the step between the floats around n
Ulp(n) == UlpFrom(Abs(n), 1)

\* n rounded to the nearest float, a tie to the one with an even mantissa
Fl(n) ==
    LET u == Ulp(n)
        q == Abs(n) \div u
        rem == Abs(n) % u
        m == IF 2 * rem > u \/ (2 * rem = u /\ q % 2 = 1) THEN q + 1 ELSE q
    IN  IF n < 0 THEN 0 - m * u ELSE m * u

(* x % r of Python floats for r > 0: the exact remainder of the division   *)
(* truncated toward zero, to which r is added (and the sum rounded) when   *)
(* it is negative.                                                         *)
FloatMod(x, r) ==
    LET fmod == IF x < 0 THEN 0 - ((0 - x) % r) ELSE x % r
    IN  IF fmod < 0 THEN Fl(fmod + r) ELSE fmod

\* mutant: the arm positions are left as accumulated
fix_arm_positions_Unbounded(arm_x, arm_y) == <<arm_x, arm_y>>

(* Brain.fix_arm_positions: arm_x wrapped into [lo, hi), arm_y clamped.    *)
fix_arm_positions(arm_x, arm_y) ==
    LET lo == ARM_X_LO * DEG
        r == (ARM_X_HI - ARM_X_LO) * DEG
    IN  << Fl(FloatMod(Fl(arm_x - lo), r) + lo),
           IF arm_y < ARM_Y_LO * DEG THEN ARM_Y_LO * DEG
           ELSE IF arm_y > ARM_Y_HI * DEG THEN ARM_Y_HI * DEG
           ELSE arm_y >>

(* Brain._most_central_face: the first box whose center is nearest the     *)
(* frame center (distances compared doubled, squared).                     *)
D2(det, w, h) ==
    (det[1] + det[3] - w) * (det[1] + det[3] - w)
    + (det[2] + det[4] - h) * (det[2] + det[4] - h)

\* mutant: a later box that is equally close replaces the best so far
RECURSIVE MostCentralFrom_LastWins(_, _, _, _, _)
MostCentralFrom_LastWins(detections, i, best, w, h) ==
    IF i > Len(detections) THEN best
    ELSE MostCentralFrom_LastWins(detections, i + 1,
                                  IF D2(detections[i], w, h) <= D2(best, w, h)
                                  THEN detections[i] ELSE best,
                                  w, h)

RECURSIVE MostCentralFrom(_, _, _, _, _)
MostCentralFrom(detections, i, best, w, h) ==
    IF i > Len(detections) THEN best
    ELSE MostCentralFrom(detections, i + 1,
                         IF D2(detections[i], w, h) < D2(best, w, h)
                         THEN detections[i] ELSE best,
                         w, h)

most_central_face(detections, frame_width, frame_height) ==
    MostCentralFrom(detections, 2, detections[1], frame_width, frame_height)

\* mutant: the edge of the shrunk box is not on target
OnTarget_Strict(box, tx_px, ty_px) ==
    /\ Abs(tx_px - ((box[1] + box[3]) * PX) \div 2) < (4 * (box[3] - box[1]) * PX) \div 10
    /\ Abs(ty_px - ((box[2] + box[4]) * PX) \div 2) < (4 * (box[4] - box[2]) * PX) \div 10

(* Brain._update_shooting: the target inside the box shrunk to 0.8x.       *)
(* cx = (x1 + x2) / 2, half_w = 0.4 * (x2 - x1), in PX units.              *)
OnTarget(box, tx_px, ty_px) ==
    /\ Abs(tx_px - ((box[1] + box[3]) * PX) \div 2) <= (4 * (box[3] - box[1]) * PX) \div 10
    /\ Abs(ty_px - ((box[2] + box[4]) * PX) \div 2) <= (4 * (box[4] - box[2]) * PX) \div 10

(* Brain.__init__; last_fire, kept beside the fields, is 1 when the last   *)
(* fire message that a step handed to the link was "1", and 0 when it was  *)
(* "0" or none was handed yet.                                             *)
BrainInit(target_x, target_y) ==
    [arm_x |-> 0, arm_y |-> 0, is_shooting |-> FALSE, last_fire |-> 0,
     target_x |-> target_x, target_y |-> target_y,
     centroid_x |-> None, centroid_y |-> None,
     angle_delta_x_deg |-> None, angle_delta_y_deg |-> None,
     camera_pan_deg |-> None, camera_tilt_deg |-> None,
     angles_set |-> FALSE]

\* mutant: the accumulated position is reset with the transient fields
clear_state_ResetsArm(b) ==
    [b EXCEPT !.arm_x = 0, !.arm_y = 0,
              !.centroid_x = None, !.centroid_y = None,
              !.angle_delta_x_deg = None, !.angle_delta_y_deg = None,
              !.camera_pan_deg = None, !.camera_tilt_deg = None,
              !.angles_set = FALSE]

(* Brain._clear_state: the angle, centroid and camera-move fields are set  *)
(* to None (angles_set stands for face_/target_/delta_ theta and phi).     *)
clear_state(b) ==
    [b EXCEPT !.centroid_x = None, !.centroid_y = None,
              !.angle_delta_x_deg = None, !.angle_delta_y_deg = None,
              !.camera_pan_deg = None, !.camera_tilt_deg = None,
              !.angles_set = FALSE]

\* mutants: the tilt is not negated; the pan is negated instead
ArmStep_TiltNotNegated(angle_delta_x_deg, angle_delta_y_deg) ==
    <<angle_delta_x_deg, angle_delta_y_deg>>

(* Brain.run line 198: the deltas handed to _step_arm, the tilt negated.   *)
ArmStep(angle_delta_x_deg, angle_delta_y_deg) ==
    <<angle_delta_x_deg, 0 - angle_delta_y_deg>>

(* Brain.run lines 177-198 up to the first send: the face, the centroid,   *)
(* the angles (_update_angles) and the arm (_step_arm before it sends).    *)
RunCompute(b, detections, frame_width, frame_height, crop) ==
    LET w == IF frame_width # None THEN frame_width ELSE WIDTH
        h == IF frame_height # None THEN frame_height ELSE HEIGHT
        box == most_central_face(detections, w, h)
        centroid_x == ((box[1] + box[3]) * NORM) \div (2 * w)
        centroid_y == ((box[2] + box[4]) * NORM) \div (2 * h)
        tx_px == TargetPx(b.target_x, WIDTH)
        ty_px == TargetPx(b.target_y, HEIGHT)
        centroid_x_px == (centroid_x * WIDTH * PX) \div NORM
        centroid_y_px == (centroid_y * HEIGHT * PX) \div NORM
        dx == offset_to_angle(centroid_x_px - tx_px, RADIUS_PX, MAX_THETA_DEG, crop)
        dy == offset_to_angle(centroid_y_px - ty_px, RADIUS_PX, MAX_THETA_DEG, crop)
        arm == fix_arm_positions(Fl(b.arm_x + ArmStep(dx, dy)[1]),
                                 Fl(b.arm_y + ArmStep(dx, dy)[2]))
    IN  [brain |-> [b EXCEPT !.centroid_x = centroid_x, !.centroid_y = centroid_y,
                             !.angle_delta_x_deg = dx, !.angle_delta_y_deg = dy,
                             !.camera_pan_deg = dx, !.camera_tilt_deg = dy,
                             !.angles_set = TRUE,
                             !.arm_x = arm[1], !.arm_y = arm[2]],
         box |-> box, w |-> w, h |-> h,
         pan |-> ArmStep(dx, dy)[1], tilt |-> ArmStep(dx, dy)[2],
         on_target |-> OnTarget(box, TargetPx(b.target_x, w), TargetPx(b.target_y, h))]

\* mutant: "y" is sent before "x"
MessageAt_YFirst(pos, b, on_target) ==
    CASE pos = "send_x" -> <<"y", b.arm_y>>
      [] pos = "send_y" -> <<"x", b.arm_x>>
      [] OTHER -> <<"fire", IF on_target THEN 1 ELSE 0>>

(* The message of each send of a step: send_arm_positions sends "x <arm_x>"*)
(* then "y <arm_y>", _update_shooting sends "1" or "0".                    *)
MessageAt(pos, b, on_target) ==
    CASE pos = "send_x" -> <<"x", b.arm_x>>
      [] pos = "send_y" -> <<"y", b.arm_y>>
      [] OTHER -> <<"fire", IF on_target THEN 1 ELSE 0>>

\* mutant: a failed send of an arm position restores the position
BrainAfterSend_RollsBack(pos, b, st, result) ==
    IF pos = "send_fire" THEN [b EXCEPT !.is_shooting = st.on_target]
    ELSE IF result # "return" THEN [b EXCEPT !.arm_x = st.prev.arm_x,
                                            !.arm_y = st.prev.arm_y]
    ELSE b

\* mutant: is_shooting is set before the arm positions are sent
BrainAfterSend_ShootsFirst(pos, b, st, result) ==
    [b EXCEPT !.is_shooting = st.on_target]

(* The fields of Brain after the send at pos ended with result:            *)
(* _update_shooting sets is_shooting before it sends; nothing in Brain     *)
(* catches what send_message raises, and no field is touched after it.     *)
BrainAfterSend(pos, b, st, result) ==
    IF pos = "send_fire" THEN [b EXCEPT !.is_shooting = st.on_target] ELSE b

StepPcs == {"send_x", "send_y", "send_fire"}

\* Brain.run with an empty detection list (lines 173-175)
RunEmpty(donePc) ==
    /\ brain' = clear_state(brain)
    /\ step' = [handed |-> <<>>, prev |-> brain, link |-> api, pan |-> 0,
                tilt |-> 0, on_target |-> FALSE, raised |-> "none",
                empty |-> TRUE, open |-> FALSE,
                detections |-> <<>>, box |-> <<>>, w |-> None, h |-> None]
    /\ call' = NoCall
    /\ pc' = donePc
    /\ UNCHANGED <<api, obs, nruns, fn, pipe>>

\* Brain.run with detections, up to the first send (lines 177-198, 139-141)
RunStart(detections, frame_width, frame_height, crop) ==
    /\ nruns < MaxRuns
    /\ LET c == RunCompute(brain, detections, frame_width, frame_height, crop)
       IN  /\ brain' = c.brain
           /\ step' = [handed |-> <<>>, prev |-> brain, link |-> ApiInit,
                       pan |-> c.pan, tilt |-> c.tilt, on_target |-> c.on_target,
                       raised |-> "none", empty |-> FALSE, open |-> TRUE,
                       detections |-> detections, box |-> c.box,
                       w |-> c.w, h |-> c.h]
    /\ call' = NoCall
    /\ pc' = "send_x"
    /\ nruns' = nruns + 1
    /\ UNCHANGED <<api, obs, fn, pipe>>

\* One send of the step: "x" and "y" in send_arm_positions (lines 70-71),
\* the fire flag in _update_shooting (lines 162-164).  The step goes on
\* after a send that returned and ends with the exception of one that raised:
\* the caller is then at donePc, or at hdePc / otherPc by the class raised.
BrainSend(pos, donePc, hdePc, otherPc) ==
    /\ pc = pos
    /\ Send("send_message", MessageAt(pos, brain, step.on_target), FALSE)
    /\ brain' = [BrainAfterSend(pos, brain, step, call'.result) EXCEPT
                    !.last_fire = IF pos = "send_fire"
                                  THEN MessageAt(pos, brain, step.on_target)[2]
                                  ELSE @]
    /\ step' = [step EXCEPT
                  !.handed = Append(@, MessageAt(pos, brain, step.on_target)),
                  !.raised = IF call'.result = "return" THEN "none" ELSE call'.result,
                  !.open = (call'.result = "return" /\ pos # "send_fire")]
    /\ pc' = IF call'.result = "HDE" THEN hdePc
             ELSE IF call'.result # "return" THEN otherPc
             ELSE CASE pos = "send_x" -> "send_y"
                    [] pos = "send_y" -> "send_fire"
                    [] OTHER -> donePc
    /\ UNCHANGED <<nruns, fn, pipe>>

----------------------------------------------------------------------------
(* Brain used by an arbitrary caller: run with any detection list, frame   *)
(* size and crop fraction, and time passing between the calls.             *)

\* Detections (x1, y1, x2, y2) and the calls of run that the caller makes.
FaceTopLeft == <<0, 0, 20, 20>>
FaceNearTarget == <<300, 180, 360, 260>>
FaceBottomRight == <<3000, 1500, 3200, 1700>>
\* as far from the center of a 640x480 frame as FaceTopLeft
FaceMirror == <<620, 460, 640, 480>>
\* the target (0.52, 0.45) of a 640x480 frame lies on the left and top edges
\* of this box shrunk to 0.8x
FaceOnEdge == <<332, 215, 340, 225>>

RunInputs ==
    { [detections |-> <<FaceTopLeft, FaceNearTarget>>, frame_width |-> 640,
       frame_height |-> 480, crop |-> 60],
      [detections |-> <<FaceBottomRight>>, frame_width |-> None,
       frame_height |-> None, crop |-> None],
      [detections |-> <<FaceTopLeft, FaceMirror>>, frame_width |-> 640,
       frame_height |-> 480, crop |-> None],
      [detections |-> <<FaceOnEdge>>, frame_width |-> 640, frame_height |-> 480,
       crop |-> None] }

\* main.py lines 14-15: target_x = 0.52, target_y = 0.45
TARGET_X == 52
TARGET_Y == 45

NoStep ==
    [handed |-> <<>>, prev |-> BrainInit(TARGET_X, TARGET_Y), link |-> ApiInit,
     pan |-> 0, tilt |-> 0, on_target |-> FALSE, raised |-> "none",
     empty |-> FALSE, open |-> FALSE,
     detections |-> <<>>, box |-> <<>>, w |-> None, h |-> None]

\* no function is applied on its own; the detection process is not looked at
NoFn == [f |-> "none"]
NoPipe == [pc |-> "none"]

NoRead == [is_running |-> FALSE, has_faces |-> FALSE, has_size |-> FALSE, ran |-> FALSE]

NoDrv ==
    [since_heartbeat |-> 0, alive |-> TRUE, exit |-> "none", caught |-> {},
     since_attempt |-> 0, attempted |-> FALSE, read |-> NoRead]

BrainSpecInit ==
    /\ api = ApiInit
    /\ call = NoCall
    /\ obs = ObsInit
    /\ brain = BrainInit(TARGET_X, TARGET_Y)
    /\ step = NoStep
    /\ pc = "idle"
    /\ drv = NoDrv
    /\ nruns = 0
    /\ fn = NoFn
    /\ pipe = NoPipe

BrainRunEmpty ==
    /\ pc = "idle"
    /\ RunEmpty("idle")
    /\ UNCHANGED drv

BrainRunStart ==
    /\ pc = "idle"
    /\ \E i \in RunInputs :
         RunStart(i.detections, i.frame_width, i.frame_height, i.crop)
    /\ UNCHANGED drv

BrainSendX == BrainSend("send_x", "idle", "idle", "idle") /\ UNCHANGED drv
BrainSendY == BrainSend("send_y", "idle", "idle", "idle") /\ UNCHANGED drv
BrainSendFire == BrainSend("send_fire", "idle", "idle", "idle") /\ UNCHANGED drv

\* the caller waits between two calls of run
BrainWait ==
    /\ pc = "idle"
    /\ api' = Later(api, SETTLE_DELAY_SEC)
    /\ obs' = ObsLater(obs, SETTLE_DELAY_SEC)
    /\ call' = NoCall
    /\ step' = NoStep
    /\ UNCHANGED <<brain, pc, drv, nruns, fn, pipe>>

BrainNext ==
    BrainRunEmpty \/ BrainRunStart \/ BrainSendX \/ BrainSendY \/ BrainSendFire
    \/ BrainWait

BrainSpec == BrainSpecInit /\ [][BrainNext]_vars

----------------------------------------------------------------------------
(* The driver loop of src/main.py (lines 42-90).                           *)

\* main.py line 47: heartbeat_interval = 0.3
HEARTBEAT_INTERVAL == 300
\* main.py line 78: time.sleep(0.1)
LOOP_SLEEP == 100
\* main.py line 47 (comment): the device's watchdog timeout, "Arduino timeout 500ms"
WATCHDOG_TIMEOUT == 500

(* What FaceCameraPipeline publishes (pipeline.py 66-97 on the default     *)
(* state of runner.py 8-15): is_running, timestamp_ms, num_faces and       *)
(* faces; no frame size and no crop fraction.                              *)
PipelineSnapshots ==
    { [is_running |-> FALSE, faces |-> <<>>, frame_width |-> None,
       frame_height |-> None, center_crop_fraction |-> None],
      [is_running |-> TRUE, faces |-> <<FaceNearTarget>>, frame_width |-> None,
       frame_height |-> None, center_crop_fraction |-> None] }

(* What pipeline.get_state() may return: the keys the loop reads, as the   *)
(* pipeline publishes them or with the frame size set in the shared state. *)
Snapshots ==
    PipelineSnapshots \cup
    { [is_running |-> TRUE, faces |-> <<>>, frame_width |-> 640,
       frame_height |-> 480, center_crop_fraction |-> None],
      [is_running |-> TRUE, faces |-> <<FaceTopLeft>>, frame_width |-> 640,
       frame_height |-> 480, center_crop_fraction |-> None],
      [is_running |-> TRUE, faces |-> <<FaceTopLeft, FaceNearTarget>>,
       frame_width |-> 640, frame_height |-> 480,
       center_crop_fraction |-> HUNDRED] }

\* main.py lines 51-54: the snapshot leads to a call of brain.run
RunsBrain(s) ==
    /\ s.is_running
    /\ Len(s.faces) > 0
    /\ s.frame_width # None
    /\ s.frame_height # None

DrvLater(d, t) ==
    [d EXCEPT !.since_heartbeat = Min(@ + t, HEARTBEAT_INTERVAL),
              !.since_attempt = Min(@ + t, WATCHDOG_TIMEOUT)]

\* what the loop saw in the snapshot it read, and whether it called brain.run
ReadOf(s, ran) ==
    [is_running |-> s.is_running, has_faces |-> Len(s.faces) > 0,
     has_size |-> (s.frame_width # None /\ s.frame_height # None), ran |-> ran]

\* mutant: no handler around brain.run
AfterRunRaised_NoHandler(result) == "finally"

(* main.py lines 55-63: HardwareDisconnectedError from brain.run is caught *)
(* and printed, and the iteration goes on; any other exception leaves the  *)
(* loop for the finally block.                                             *)
AfterRunRaised(result) == IF result = "HDE" THEN "heartbeat" ELSE "finally"

(* main.py lines 72-77: the same around send_heartbeat.                    *)
AfterHeartbeatRaised(result) == IF result = "HDE" THEN "sleep" ELSE "finally"

LoopPcs == {"loop", "send_x", "send_y", "send_fire", "heartbeat", "sleep"}

DriverInit ==
    /\ api = ApiInit
    /\ call = NoCall
    /\ obs = ObsInit
    /\ brain = BrainInit(TARGET_X, TARGET_Y)
    /\ step = NoStep
    /\ pc = "loop"
    /\ drv = NoDrv
    /\ nruns = 0
    /\ fn = NoFn
    /\ pipe = NoPipe

\* line 48: the pipeline is no longer alive
DriverLeave ==
    /\ pc = "loop"
    /\ ~drv.alive
    /\ pc' = "finally"
    /\ drv' = [drv EXCEPT !.exit = "not_alive"]
    /\ UNCHANGED <<api, call, obs, brain, step, nruns, fn, pipe>>

\* lines 49-61: a snapshot with faces and a frame size: brain.run
DriverRun ==
    /\ pc = "loop"
    /\ drv.alive
    /\ \E s \in {x \in Snapshots : RunsBrain(x)} :
         /\ RunStart(s.faces, s.frame_width, s.frame_height, s.center_crop_fraction)
         /\ drv' = [drv EXCEPT !.read = ReadOf(s, TRUE)]

\* lines 49-54: any other snapshot: no controller step
DriverSkip ==
    /\ pc = "loop"
    /\ drv.alive
    /\ nruns < MaxRuns
    /\ \E s \in {x \in Snapshots : ~RunsBrain(x)} :
         drv' = [drv EXCEPT !.read = ReadOf(s, FALSE), !.caught = {}]
    /\ pc' = "heartbeat"
    /\ nruns' = nruns + 1
    /\ step' = NoStep
    /\ call' = NoCall
    /\ UNCHANGED <<api, obs, brain, fn, pipe>>

\* the sends of brain.run called from the loop
DriverSend(pos) ==
    /\ BrainSend(pos, "heartbeat", AfterRunRaised("HDE"), AfterRunRaised("other"))
    /\ drv' = [DrvLater(drv, call'.t) EXCEPT
                 !.caught = IF call'.result # "return" /\ pc' # "finally"
                            THEN {"run"} ELSE {},
                 !.exit = IF pc' = "finally" THEN call'.result ELSE @]

DriverSendX == DriverSend("send_x")
DriverSendY == DriverSend("send_y")
DriverSendFire == DriverSend("send_fire")

\* lines 72-77: the heartbeat is due
DriverHeartbeat ==
    /\ pc = "heartbeat"
    /\ drv.since_heartbeat >= HEARTBEAT_INTERVAL
    /\ Send("send_heartbeat", <<"3", 0>>, FALSE)
    /\ pc' = IF call'.result = "return" THEN "sleep"
             ELSE AfterHeartbeatRaised(call'.result)
    /\ drv' = [DrvLater(drv, call'.t) EXCEPT
                 !.since_heartbeat = IF call'.result = "return" THEN 0 ELSE @,
                 !.since_attempt = Min(call'.t, WATCHDOG_TIMEOUT),
                 !.attempted = TRUE,
                 !.caught = IF call'.result # "return" /\ pc' # "finally"
                            THEN @ \cup {"heartbeat"} ELSE @,
                 !.exit = IF pc' = "finally" THEN call'.result ELSE @]
    /\ UNCHANGED <<brain, step, nruns, fn, pipe>>

\* line 72: the heartbeat is not due
DriverNoHeartbeat ==
    /\ pc = "heartbeat"
    /\ drv.since_heartbeat < HEARTBEAT_INTERVAL
    /\ pc' = "sleep"
    /\ UNCHANGED <<api, call, obs, brain, step, drv, nruns, fn, pipe>>

\* line 78: time.sleep(0.1); the iteration is over, and with it the records
\* kept of its snapshot, its step and its calls
DriverSleep ==
    /\ pc = "sleep"
    /\ api' = Later(api, LOOP_SLEEP)
    /\ obs' = ObsLater(obs, LOOP_SLEEP)
    /\ drv' = [DrvLater(drv, LOOP_SLEEP) EXCEPT !.read = NoRead]
    /\ pc' = "loop"
    /\ call' = NoCall
    /\ step' = NoStep
    /\ UNCHANGED <<brain, nruns, fn, pipe>>

\* the detection process ends; the loop sees it at its next test (line 48)
PipelineEnds ==
    /\ pc = "loop"
    /\ drv.alive
    /\ drv' = [drv EXCEPT !.alive = FALSE]
    /\ UNCHANGED <<api, call, obs, brain, step, pc, nruns, fn, pipe>>

\* lines 79-83: KeyboardInterrupt in the loop, which ends a step under way:
\* "x 0", "y 0", "0" are sent
KeyboardInterrupt ==
    /\ pc \in LoopPcs
    /\ pc' = "kb_x"
    /\ drv' = [drv EXCEPT !.exit = "KeyboardInterrupt"]
    /\ step' = IF pc \in StepPcs
               THEN [step EXCEPT !.open = FALSE, !.raised = "KeyboardInterrupt"]
               ELSE step
    /\ UNCHANGED <<api, call, obs, brain, nruns, fn, pipe>>

InterruptSend(pos, message, nextPc) ==
    /\ pc = pos
    /\ \E pre \in PreOutcomes(api), w \in WriteOutcomes :
         LET r == SendMessage(api, FALSE, pre, w)
         IN /\ api' = r.h
            /\ obs' = ObsAfter(obs, FALSE, r)
            /\ pc' = IF r.result = "return" THEN nextPc ELSE "finally"
    /\ call' = NoCall
    /\ UNCHANGED <<brain, step, drv, nruns, fn, pipe>>

InterruptSendX == InterruptSend("kb_x", <<"x", 0>>, "kb_y")
InterruptSendY == InterruptSend("kb_y", <<"y", 0>>, "kb_fire")
InterruptSendFire == InterruptSend("kb_fire", <<"fire", 0>>, "finally")

\* lines 84-90: request_quit, join, hardware_api.close()
DriverFinally ==
    /\ pc = "finally"
    /\ \E closeRaises \in BOOLEAN : api' = Close(api, closeRaises /\ api.ser)
    /\ pc' = "done"
    /\ UNCHANGED <<call, obs, brain, step, drv, nruns, fn, pipe>>

\* the steps of the loop itself
DriverLoopStep ==
    DriverLeave \/ DriverRun \/ DriverSkip
    \/ DriverSendX \/ DriverSendY \/ DriverSendFire
    \/ DriverHeartbeat \/ DriverNoHeartbeat \/ DriverSleep

DriverNext ==
    DriverLoopStep
    \/ PipelineEnds \/ KeyboardInterrupt
    \/ InterruptSendX \/ InterruptSendY \/ InterruptSendFire
    \/ DriverFinally

DriverSpec == DriverInit /\ [][DriverNext]_vars

----------------------------------------------------------------------------
(* The link alone, used by an arbitrary client: send_message with either   *)
(* value of rate_limit, send_heartbeat, close, and time passing between    *)
(* the calls.                                                              *)

\* What the client may wait between two calls (ms).
WaitChoices == {50, 1000}

LinkInit ==
    /\ api = ApiInit
    /\ call = NoCall
    /\ obs = ObsInit
    /\ brain = BrainInit(TARGET_X, TARGET_Y)
    /\ step = NoStep
    /\ pc = "client"
    /\ drv = NoDrv
    /\ nruns = 0
    /\ fn = NoFn
    /\ pipe = NoPipe

\* send_message(message, rate_limit=rl) by the client
LinkSend ==
    /\ \E rl \in BOOLEAN : Send("send_message", <<"2", 0>>, rl)
    /\ UNCHANGED <<brain, step, pc, drv, nruns, fn, pipe>>

\* send_heartbeat(): send_message("3", rate_limit=False)
LinkHeartbeat ==
    /\ Send("send_heartbeat", <<"3", 0>>, FALSE)
    /\ UNCHANGED <<brain, step, pc, drv, nruns, fn, pipe>>

\* close()
LinkClose ==
    /\ \E closeRaises \in BOOLEAN :
         /\ api' = Close(api, closeRaises /\ api.ser)
         /\ call' = [NoCall EXCEPT !.op = "close", !.pre = api]
    /\ UNCHANGED <<brain, step, pc, drv, nruns, obs, fn, pipe>>

\* time passes between two calls
LinkWait ==
    /\ \E d \in WaitChoices :
         /\ api' = Later(api, d)
         /\ obs' = ObsLater(obs, d)
    /\ call' = NoCall
    /\ UNCHANGED <<brain, step, pc, drv, nruns, fn, pipe>>

LinkNext == LinkSend \/ LinkHeartbeat \/ LinkClose \/ LinkWait

LinkSpec == LinkInit /\ [][LinkNext]_vars

----------------------------------------------------------------------------
(* The detection process (src/vision/pipeline.py), the shared state of     *)
(* src/vision/runner.py and the loop of main.py that polls it.  The        *)
(* shared state is a Manager().dict(): every read or write of one key is   *)
(* one request to the manager, and the requests of the two processes       *)
(* interleave.                                                             *)

\* A value of the shared state with the frame it was published for (0: the
\* default state).
Val(v, frame) == [v |-> v, frame |-> frame]

\* runner._default_state (lines 8-15), in the order of the keys
SharedDefault ==
    [is_running |-> Val(FALSE, 0), timestamp_ms |-> Val(0, 0),
     num_faces |-> Val(0, 0), faces |-> Val(0, 0),
     quit_requested |-> Val(FALSE, 0)]

\* run_pipeline lines 80-84: the keys of one publish, in the order written
PublishOrder == <<"timestamp_ms", "num_faces", "faces">>

\* mutant: get_state copies faces before the other keys
ReadOrder_FacesFirst == <<"faces", "is_running", "timestamp_ms", "num_faces">>

\* get_state, line 47: dict(proxy) asks for the keys, then for each value,
\* in the order the keys were inserted (quit_requested is not read by main)
ReadOrder == <<"is_running", "timestamp_ms", "num_faces", "faces">>

\* the numbers of faces a frame may have
FaceCounts == {0, 1}

\* what a request to a Manager that is gone raises (BrokenPipeError and
\* ConnectionRefusedError are ConnectionErrors, FileNotFoundError an OSError)
DeadConnErrors == {"EOFError", "ConnectionError", "OSError"}

\* _write_state line 53, _should_quit line 63: the exceptions caught
Handles(e) == e \in {"EOFError", "ConnectionError", "OSError"}

\* an exception of a request of the detection process that nothing catches
Escapes(p) == ~p.conn /\ \E e \in DeadConnErrors : ~Handles(e)

\* mutant: only a dead connection ends the loop
should_quit_IgnoresFlag(p) == ~p.conn

(* _should_quit (lines 57-64): quit_requested, or True when the request    *)
(* raises EOFError / ConnectionError / OSError because the parent is gone. *)
should_quit(p) == IF p.conn THEN p.shared.quit_requested.v ELSE TRUE

(* _write_state (lines 46-55), one key: the shared state after it, left    *)
(* as it is when the connection is dead (the exception is caught).         *)
write_state(p, k, v) ==
    IF p.conn THEN [p.shared EXCEPT ![k] = Val(v, p.det.frame)] ELSE p.shared

\* no snapshot read
NoSnap == [is_running |-> Val(FALSE, 0), timestamp_ms |-> Val(0, 0),
           num_faces |-> Val(0, 0), faces |-> Val(0, 0)]

\* run_pipeline lines 80-84 publish no frame_width / frame_height
SrcPublishesFrameSize == FALSE
\* the snapshot that main.py lines 53-54 expect carries them
SpecPublishesFrameSize == TRUE

\* The runner constructed and the process started; the snapshots carry the
\* frame size (sized) or not.
PipeStates ==
    { [shared |-> SharedDefault, conn |-> TRUE, sized |-> z,
       det |-> [pc |-> "start", frame |-> 0, n |-> 0, todo |-> <<>>,
                passed |-> FALSE, raised |-> FALSE, left |-> "none"],
       rd |-> [pc |-> "poll", todo |-> <<>>, snap |-> NoSnap,
               overlap |-> FALSE, stepped |-> FALSE],
       steps |-> [t \in 0..MaxFrames |-> 0]] :
         z \in {SrcPublishesFrameSize, SpecPublishesFrameSize} }

PipeInit ==
    /\ api = ApiInit
    /\ call = NoCall
    /\ obs = ObsInit
    /\ brain = BrainInit(TARGET_X, TARGET_Y)
    /\ step = NoStep
    /\ pc = "pipe"
    /\ drv = NoDrv
    /\ nruns = 0
    /\ fn = NoFn
    /\ pipe \in PipeStates

\* what the detection process and its reader leave alone
NotPipe == <<api, call, brain, step, pc, drv, nruns, obs, fn>>

\* a write of the detection process lands while get_state copies the keys
Overlaps(p) == IF p.rd.pc = "read" THEN [p.rd EXCEPT !.overlap = TRUE] ELSE p.rd

\* run_pipeline lines 67-69: is_running = True; return when the write failed
DetStart ==
    /\ pipe.det.pc = "start"
    /\ pipe' = [pipe EXCEPT
                  !.shared = write_state(pipe, "is_running", TRUE),
                  !.det.pc = IF pipe.conn THEN "loop" ELSE "done",
                  !.det.raised = Escapes(pipe),
                  !.rd = Overlaps(pipe)]
    /\ UNCHANGED NotPipe

\* lines 72-73: the test at the start of an iteration
DetCheckQuit ==
    /\ pipe.det.pc = "loop"
    /\ pipe' = [pipe EXCEPT
                  !.det.pc = IF should_quit(pipe) THEN "final" ELSE "capture",
                  !.det.left = IF should_quit(pipe)
                               THEN (IF pipe.conn THEN "quit" ELSE "parent_gone")
                               ELSE @,
                  !.det.raised = Escapes(pipe),
                  !.det.passed = ((pipe.shared.quit_requested.v \/ ~pipe.conn)
                                  /\ ~should_quit(pipe))]
    /\ UNCHANGED NotPipe

\* lines 74-78: a frame is read and its faces are detected
DetCapture ==
    /\ pipe.det.pc = "capture"
    /\ pipe.det.frame < MaxFrames
    /\ \E n \in FaceCounts :
         pipe' = [pipe EXCEPT !.det.pc = "write", !.det.frame = @ + 1,
                              !.det.n = n, !.det.todo = PublishOrder]
    /\ UNCHANGED NotPipe

\* lines 75-77: the camera gives no frame
DetNoFrame ==
    /\ pipe.det.pc = "capture"
    /\ pipe' = [pipe EXCEPT !.det.pc = "final", !.det.left = "no_frame"]
    /\ UNCHANGED NotPipe

\* lines 80-85 through _write_state: one key of the publish; the loop is
\* left when the connection is dead, and goes on to the next iteration
\* (lines 86-92) after the last key
DetWrite ==
    /\ pipe.det.pc = "write"
    /\ LET k == Head(pipe.det.todo)
           v == IF k = "timestamp_ms" THEN pipe.det.frame ELSE pipe.det.n
       IN  pipe' = [pipe EXCEPT
                      !.shared = write_state(pipe, k, v),
                      !.det.todo = IF pipe.conn THEN Tail(@) ELSE <<>>,
                      !.det.pc = IF ~pipe.conn THEN "final"
                                 ELSE IF Len(pipe.det.todo) = 1 THEN "loop"
                                 ELSE "write",
                      !.det.left = IF ~pipe.conn THEN "parent_gone" ELSE @,
                      !.det.raised = Escapes(pipe),
                      !.rd = IF pipe.conn THEN Overlaps(pipe) ELSE @]
    /\ UNCHANGED NotPipe

\* lines 95-97: after the loop, is_running = False
DetFinal ==
    /\ pipe.det.pc = "final"
    /\ pipe' = [pipe EXCEPT
                  !.shared = write_state(pipe, "is_running", FALSE),
                  !.det.pc = "done",
                  !.det.raised = Escapes(pipe),
                  !.rd = IF pipe.conn THEN Overlaps(pipe) ELSE @]
    /\ UNCHANGED NotPipe

\* main.py lines 48-49: the process is alive; get_state asks for the keys
ReadStart ==
    /\ pipe.rd.pc = "poll"
    /\ pipe.conn
    /\ ~pipe.shared.quit_requested.v
    /\ pipe.det.pc # "done"
    /\ pipe' = [pipe EXCEPT
                  !.rd = [pc |-> "read", todo |-> ReadOrder, snap |-> NoSnap,
                          overlap |-> (pipe.det.pc = "write"
                                       /\ Len(pipe.det.todo) < Len(PublishOrder)),
                          stepped |-> FALSE]]
    /\ UNCHANGED NotPipe

\* get_state, line 47: the value of the next key is copied
ReadKey ==
    /\ pipe.rd.pc = "read"
    /\ pipe.conn
    /\ pipe.rd.todo # <<>>
    /\ LET k == Head(pipe.rd.todo)
       IN  pipe' = [pipe EXCEPT !.rd.snap[k] = pipe.shared[k],
                                !.rd.todo = Tail(@),
                                !.rd.pc = IF Len(pipe.rd.todo) = 1 THEN "got"
                                          ELSE "read"]
    /\ UNCHANGED NotPipe

\* main.py lines 50-61: the snapshot is running, has faces and a frame
\* size: brain.run; its errors are added to arm_x / arm_y
ReadStep ==
    /\ pipe.rd.pc = "got"
    /\ pipe.rd.snap.is_running.v /\ pipe.rd.snap.faces.v > 0 /\ pipe.sized
    /\ pipe' = [pipe EXCEPT
                  !.rd.pc = "poll", !.rd.stepped = TRUE,
                  !.steps[pipe.rd.snap.timestamp_ms.v] = IF @ < 2 THEN @ + 1 ELSE @]
    /\ UNCHANGED NotPipe

\* main.py lines 51-54: any other snapshot: no step
ReadSkip ==
    /\ pipe.rd.pc = "got"
    /\ ~(pipe.rd.snap.is_running.v /\ pipe.rd.snap.faces.v > 0 /\ pipe.sized)
    /\ pipe' = [pipe EXCEPT !.rd.pc = "poll"]
    /\ UNCHANGED NotPipe

\* runner.request_quit (lines 54-55), called by main.py line 88
RequestQuit ==
    /\ pipe.rd.pc = "poll"
    /\ pipe.conn
    /\ ~pipe.shared.quit_requested.v
    /\ pipe' = [pipe EXCEPT !.shared.quit_requested = Val(TRUE, 0)]
    /\ UNCHANGED NotPipe

\* the parent process and its Manager are gone
ParentGone ==
    /\ pipe.conn
    /\ pipe' = [pipe EXCEPT !.conn = FALSE]
    /\ UNCHANGED NotPipe

PipeNext ==
    DetStart \/ DetCheckQuit \/ DetCapture \/ DetNoFrame \/ DetWrite \/ DetFinal
    \/ ReadStart \/ ReadKey \/ ReadStep \/ ReadSkip \/ RequestQuit \/ ParentGone

PipeSpec == PipeInit /\ [][PipeNext]_vars

----------------------------------------------------------------------------
(* The functions applied on their own to arguments drawn from small sets.  *)

\* pixel offsets in PX units (tenths of a pixel), both signs and zero
Offsets == {0 - 1001, 0 - 333, 0 - 10, 0 - 3, 0 - 1, 0, 1, 3, 10, 333, 1001}
\* circle radii in pixels: 640 / 3 and 3840 / 3, and one that divides nothing
Radii == {7, 213, RADIUS_PX}
MaxThetas == {1, 45, MAX_THETA_DEG}
\* crop fractions in hundredths, None for no crop
CropFractions == {None, 33, 60, HUNDRED}

OffsetArgs ==
    { [f |-> "offset_to_angle", applied |-> FALSE, delta_pixels |-> d,
       radius_px |-> r, max_theta_deg |-> m, crop_fraction |-> c] :
         d \in Offsets, r \in Radii, m \in MaxThetas, c \in CropFractions }

\* frame sizes: a rectilinear frame, the legacy size and a frame of its shape
FrameSizes == {<<640, 480>>, <<1280, 640>>, <<WIDTH, HEIGHT>>}
\* targets in hundredths: fractions of the frame (<= 1.0) and pixels
Targets == {<<TARGET_X, TARGET_Y>>, <<32000, 24000>>}

AngleArgs ==
    { [f |-> "update_angles", applied |-> FALSE, box |-> b,
       frame_width |-> s[1], frame_height |-> s[2],
       target_x |-> t[1], target_y |-> t[2], crop_fraction |-> c] :
         b \in {FaceTopLeft, FaceNearTarget}, s \in FrameSizes, t \in Targets,
         c \in {None, 60} }

\* arm positions in DEG units: at, next to and far from the bounds
ArmXs ==
    {ARM_X_LO * DEG - 1, ARM_X_LO * DEG, ARM_X_LO * DEG + 1, 0, DEG,
     ARM_X_HI * DEG - 1, ARM_X_HI * DEG, 3 * ARM_X_HI * DEG + 4,
     3 * ARM_X_LO * DEG - 4}
ArmYs == {ARM_Y_LO * DEG - 1, ARM_Y_LO * DEG, 0, ARM_Y_HI * DEG, 2 * ARM_Y_HI * DEG}

ArmArgs ==
    { [f |-> "fix_arm_positions", applied |-> FALSE, arm_x |-> x, arm_y |-> y] :
         x \in ArmXs, y \in ArmYs }

FnArgs == OffsetArgs \cup AngleArgs \cup ArmArgs

FnInit ==
    /\ api = ApiInit
    /\ call = NoCall
    /\ obs = ObsInit
    /\ brain = BrainInit(TARGET_X, TARGET_Y)
    /\ step = NoStep
    /\ pc = "fn"
    /\ drv = NoDrv
    /\ nruns = 0
    /\ fn \in FnArgs
    /\ pipe = NoPipe

\* offset_to_angle at delta_pixels, at its opposite and at zero
ApplyOffsetToAngle ==
    /\ fn.f = "offset_to_angle"
    /\ ~fn.applied
    /\ fn' = [f |-> fn.f, applied |-> TRUE, args |-> fn,
              at_d |-> offset_to_angle(fn.delta_pixels, fn.radius_px,
                                       fn.max_theta_deg, fn.crop_fraction),
              at_minus_d |-> offset_to_angle(0 - fn.delta_pixels, fn.radius_px,
                                             fn.max_theta_deg, fn.crop_fraction),
              at_zero |-> offset_to_angle(0, fn.radius_px,
                                          fn.max_theta_deg, fn.crop_fraction)]
    /\ UNCHANGED <<api, call, brain, step, pc, drv, nruns, obs, pipe>>

\* Brain.run lines 177-196 on one detection: the centroid and the errors
\* that _update_angles leaves in angle_delta_x_deg / angle_delta_y_deg
ApplyUpdateAngles ==
    /\ fn.f = "update_angles"
    /\ ~fn.applied
    /\ LET c == RunCompute(BrainInit(fn.target_x, fn.target_y), <<fn.box>>,
                           fn.frame_width, fn.frame_height, fn.crop_fraction)
       IN  fn' = [f |-> fn.f, applied |-> TRUE, args |-> fn,
                  angle_delta_x_deg |-> c.brain.angle_delta_x_deg,
                  angle_delta_y_deg |-> c.brain.angle_delta_y_deg]
    /\ UNCHANGED <<api, call, brain, step, pc, drv, nruns, obs, pipe>>

\* fix_arm_positions applied once, and again to what it gave
ApplyFixArmPositions ==
    /\ fn.f = "fix_arm_positions"
    /\ ~fn.applied
    /\ LET once == fix_arm_positions(fn.arm_x, fn.arm_y)
       IN  fn' = [f |-> fn.f, applied |-> TRUE, args |-> fn,
                  once |-> once, twice |-> fix_arm_positions(once[1], once[2])]
    /\ UNCHANGED <<api, call, brain, step, pc, drv, nruns, obs, pipe>>

FnNext == ApplyOffsetToAngle \/ ApplyUpdateAngles \/ ApplyFixArmPositions

FnSpec == FnInit /\ [][FnNext]_vars

----------------------------------------------------------------------------
(* Claims about the link, checked under LinkSpec *)

\* the call just ended was a send on a Connected link whose WRITE_RETRIES
\* writes of the retry loop all failed
AllRetriesFailed ==
    /\ IsSend
    /\ call.pre.connected
    /\ Len(call.ev) >= WRITE_RETRIES
    /\ \A i \in 1..WRITE_RETRIES : call.ev[i].e = "write_fail"

LastEvent == call.ev[Len(call.ev)].e

\* C2 as stated: after WRITE_RETRIES failed writes on a Connected link the
\* call made exactly one reconnect and exactly one more write; if that write
\* failed the call raised HardwareDisconnectedError and the link is
\* Disconnected, if it succeeded the call returned and the link is Connected.
C2_AsStated ==
    AllRetriesFailed =>
        /\ Count(call.ev, "reconnect") = 1
        /\ Writes(call.ev) = WRITE_RETRIES + 1
        /\ LastEvent \in WriteEvents
        /\ LastEvent = "write_ok" => (call.result = "return" /\ api.connected)
        /\ LastEvent # "write_ok" => (call.result = "HDE" /\ ~api.connected)

\* C2 amended: after WRITE_RETRIES failed writes on a Connected link the call
\* makes exactly one reconnect.  When the reconnect opens the port it writes
\* exactly once more: a success returns with the link Connected, a failure
\* with SerialException/OSError raises HardwareDisconnectedError with the
\* link Disconnected.  When the reconnect does not open the port there is no
\* further write and the call raises HardwareDisconnectedError; the link is
\* Disconnected when the opens failed with SerialException/OSError.
C2_Amended ==
    AllRetriesFailed =>
        /\ Count(call.ev, "reconnect") = 1
        /\ Count(call.ev, "open_ok") <= 1
        /\ Count(call.ev, "open_ok") = 1 =>
              /\ Writes(call.ev) = WRITE_RETRIES + 1
              /\ LastEvent \in WriteEvents
              /\ LastEvent = "write_ok" => (call.result = "return" /\ api.connected)
              /\ LastEvent = "write_fail" => (call.result = "HDE" /\ ~api.connected)
              /\ LastEvent = "write_raise" => call.result = "HDE"
        /\ Count(call.ev, "open_ok") = 0 =>
              /\ Writes(call.ev) = WRITE_RETRIES
              /\ call.result = "HDE"
              /\ ~api.connected

\* C2 witness: ten failed writes, a reconnect that opened the port, and a
\* last write that failed.
C2_Witness ==
    /\ AllRetriesFailed
    /\ Count(call.ev, "open_ok") = 1
    /\ LastEvent = "write_fail"
    /\ call.result = "HDE"
    /\ ~api.connected

\* C4: a send on a Disconnected link less than RECONNECT_BACKOFF_SEC after the
\* last recorded reconnect attempt raises HardwareDisconnectedError at once,
\* with no open and no write, and leaves the fields of the link as they were.
C4_Backoff ==
    (IsSend /\ ~call.pre.connected
            /\ call.pre.since_reconnect_attempt < RECONNECT_BACKOFF_SEC) =>
        /\ call.result = "HDE"
        /\ call.ev = <<>>
        /\ call.t = 0
        /\ api = call.pre

\* C4 witness: a send in the backoff window, later than one retry delay
\* after the recorded attempt.
C4_Witness ==
    /\ IsSend
    /\ ~call.pre.connected
    /\ call.pre.since_reconnect_attempt > RECONNECT_RETRY_DELAY_SEC
    /\ call.pre.since_reconnect_attempt < RECONNECT_BACKOFF_SEC
    /\ call.result = "HDE"
    /\ call.ev = <<>>

RateLimitedSendOnConnected ==
    IsSend /\ call.rate_limit /\ call.pre.connected

\* C5 as stated: on a Connected link a rate-limited send less than
\* rate_limit_ms after the previous rate-limited send that was written
\* returns without error and without a transport write; one at or after that
\* interval is handed to the transport (and written when the first write
\* succeeds).
C5_AsStated ==
    RateLimitedSendOnConnected =>
        /\ call.obs.since_written < call.pre.rate_limit_ms =>
              (call.result = "return" /\ Writes(call.ev) = 0)
        /\ call.obs.since_written >= call.pre.rate_limit_ms =>
              /\ Writes(call.ev) > 0
              /\ call.firstWriteOk => Written(call.ev)

\* C5 amended: on a Connected link a rate-limited send less than
\* rate_limit_ms after last_message (the last rate-limited send written by
\* the retry loop, or the last open of the port if later; the write after a
\* reconnect does not count) returns without error, touches the transport
\* not at all and changes no field; one at or after that interval is handed
\* to the transport, and is written when the first write succeeds.
C5_Amended ==
    RateLimitedSendOnConnected =>
        /\ call.pre.since_message < call.pre.rate_limit_ms =>
              (call.result = "return" /\ call.ev = <<>> /\ api = call.pre)
        /\ call.pre.since_message >= call.pre.rate_limit_ms =>
              /\ call.ev # <<>>
              /\ call.ev[1].e \in WriteEvents
              /\ call.firstWriteOk =>
                    /\ call.result = "return"
                    /\ call.ev = <<[e |-> "write_ok", t |-> 0]>>
                    /\ api.since_message = 0

\* C5 witness: a rate-limited send inside the interval after a written one
\* was dropped.
C5_Witness ==
    /\ RateLimitedSendOnConnected
    /\ call.pre.since_message > 0
    /\ call.pre.since_message < call.pre.rate_limit_ms
    /\ call.obs.since_written = call.pre.since_message
    /\ call.result = "return"
    /\ call.ev = <<>>

\* C6: a send with rate_limit=False (send_message or send_heartbeat) on a
\* Connected link whose transport accepts the write results in exactly that
\* write, however recently a message was sent, and leaves last_message as it
\* was.
C6_Unthrottled ==
    (IsSend /\ ~call.rate_limit /\ call.pre.connected /\ call.firstWriteOk) =>
        /\ call.result = "return"
        /\ call.ev = <<[e |-> "write_ok", t |-> 0]>>
        /\ api.since_message = call.pre.since_message
        /\ api = call.pre

\* C6 witness: an unthrottled send was written right after a rate-limited
\* send had been written.
C6_Witness ==
    /\ IsSend /\ ~call.rate_limit /\ call.pre.connected /\ call.firstWriteOk
    /\ call.pre.since_message = 0
    /\ call.obs.since_written = 0
    /\ Written(call.ev)

\* C9: when the transport raises only SerialException or OSError, a
\* send_message or send_heartbeat call, in any state of the link, either
\* returns or raises HardwareDisconnectedError.
C9_OnlyHDE ==
    (IsSend /\ call.serialOnly) => call.result \in {"return", "HDE"}

\* C9 witness: a send on a Disconnected link past the backoff whose
\* reconnect failed with SerialException.
C9_Witness ==
    /\ IsSend
    /\ call.serialOnly
    /\ ~call.pre.connected
    /\ ~call.pre.ser
    /\ call.why = "reconnect_failed"
    /\ call.result = "HDE"

----------------------------------------------------------------------------
(* Properties of Brain, checked under BrainSpec.                           *)

InPanBounds(v) == ARM_X_LO * DEG <= v /\ v <= ARM_X_HI * DEG
InTiltBounds(v) == ARM_Y_LO * DEG <= v /\ v <= ARM_Y_HI * DEG

\* C1: after every Brain.run call, whatever the detections, frame sizes and
\* send outcomes, arm_x lies within [-180, 180] and arm_y within [-20, 90],
\* and every value handed to the link in an "x" or "y" message lies within
\* the same bounds.
C1_ArmWithinBounds ==
    /\ InPanBounds(brain.arm_x)
    /\ InTiltBounds(brain.arm_y)
    /\ \A i \in 1..Len(step.handed) :
         /\ step.handed[i][1] = "x" => InPanBounds(step.handed[i][2])
         /\ step.handed[i][1] = "y" => InTiltBounds(step.handed[i][2])

\* C1 witness: a step whose sum left both ranges (arm_x wrapped, arm_y
\* clamped) has handed its "x" and "y" messages to the link.
C1_Witness ==
    /\ Len(step.handed) >= 2
    /\ ~InPanBounds(step.prev.arm_x + step.pan)
    /\ ~InTiltBounds(step.prev.arm_y + step.tilt)

\* what arm_x, arm_y are after a step in which every send succeeds
ArmIfAllSent ==
    fix_arm_positions(step.prev.arm_x + step.pan, step.prev.arm_y + step.tilt)

C8_EmptyRun ==
    step.empty =>
        /\ step.handed = <<>>
        /\ call = NoCall
        /\ api = step.link
        /\ brain.arm_x = step.prev.arm_x
        /\ brain.arm_y = step.prev.arm_y
        /\ brain.is_shooting = step.prev.is_shooting
        /\ brain.target_x = step.prev.target_x
        /\ brain.target_y = step.prev.target_y
        /\ brain.centroid_x = None /\ brain.centroid_y = None
        /\ brain.angle_delta_x_deg = None /\ brain.angle_delta_y_deg = None
        /\ brain.camera_pan_deg = None /\ brain.camera_tilt_deg = None

\* C8 witness: an empty run after a step that moved the arm and set the
\* transient fields.
C8_Witness ==
    /\ step.empty
    /\ step.prev.centroid_x # None
    /\ brain.arm_x # 0
    /\ brain.arm_y # 0
    /\ brain.centroid_x = None

----------------------------------------------------------------------------
(* Properties of the driver loop, checked under DriverSpec.                *)

\* C7: the messages a step hands to the link are a prefix of "x <arm_x>",
\* "y <arm_y>", fire flag, in that order, and all three when every send
\* succeeded; every message sent in the loop while a step is under way is
\* that step's, and a heartbeat is sent only when no step is under way.
C7_StepOrder ==
    /\ Len(step.handed) <= 3
    /\ Len(step.handed) >= 1 => step.handed[1] = <<"x", brain.arm_x>>
    /\ Len(step.handed) >= 2 => step.handed[2] = <<"y", brain.arm_y>>
    /\ Len(step.handed) = 3 =>
         /\ step.handed[3][1] = "fire"
         /\ step.handed[3][2] \in {0, 1}
    /\ pc = "send_x" => step.handed = <<>>
    /\ pc = "send_y" => Len(step.handed) = 1
    /\ pc = "send_fire" => Len(step.handed) = 2
    /\ (pc \notin StepPcs /\ step.handed # <<>> /\ step.raised = "none")
         => Len(step.handed) = 3
    /\ step.open <=> pc \in StepPcs
    /\ (pc \in StepPcs /\ IsSend) =>
         /\ call.op = "send_message"
         /\ call.message = step.handed[Len(step.handed)]
    /\ call.op = "send_heartbeat" => ~step.open

\* C7 witness: a step handed all three messages and the heartbeat of the
\* same iteration was sent after them.
C7_Witness ==
    /\ Len(step.handed) = 3
    /\ step.raised = "none"
    /\ call.op = "send_heartbeat"
    /\ pc = "sleep"

\* C10: a HardwareDisconnectedError raised by a step or by a heartbeat is
\* caught in the loop, which goes on with the rest of the iteration; the
\* loop is left only because the pipeline is no longer alive, on
\* KeyboardInterrupt, or on an exception of another kind.
C10_LoopSurvives ==
    /\ drv.exit \in {"none", "not_alive", "KeyboardInterrupt", "other"}
    /\ pc \in LoopPcs <=> drv.exit = "none"
    /\ (step.raised = "HDE" /\ drv.exit = "none")
         => pc \in {"heartbeat", "sleep", "loop"}
    /\ (call.op = "send_heartbeat" /\ call.result = "HDE" /\ drv.exit = "none")
         => pc \in {"sleep", "loop"}

\* C10 witness: after a step and a heartbeat both raised
\* HardwareDisconnectedError, the loop polled again and began a new step.
C10_Witness ==
    /\ drv.caught = {"run", "heartbeat"}
    /\ pc = "send_x"
    /\ drv.alive

----------------------------------------------------------------------------
(* Further properties of the link, checked under LinkSpec.                 *)

\* C11: after every successful open of the port (at construction and at
\* every reconnect) no write is issued until SETTLE_DELAY_SEC (2.5 s) has
\* passed since the open: every write of a call comes that long after the
\* last open before the call and after every earlier open of the same call.
C11_SettleBeforeWrite ==
    IsSend =>
        \A i \in 1..Len(call.ev) :
            call.ev[i].e \in WriteEvents =>
                /\ call.obs.since_open + call.ev[i].t >= SETTLE_DELAY_SEC
                /\ \A j \in 1..(i - 1) :
                      call.ev[j].e = "open_ok" =>
                          call.ev[i].t - call.ev[j].t >= SETTLE_DELAY_SEC

\* C11 witness: a send that reconnected wrote exactly SETTLE_DELAY_SEC after
\* the open.
C11_Witness ==
    /\ IsSend
    /\ \E i \in 1..Len(call.ev) : \E j \in 1..(i - 1) :
          /\ call.ev[j].e = "open_ok"
          /\ call.ev[i].e = "write_ok"
          /\ call.ev[i].t - call.ev[j].t = SETTLE_DELAY_SEC

----------------------------------------------------------------------------
(* Further properties of the driver loop, checked under DriverSpec.        *)

\* C12: in every execution of the driver loop the time between two
\* consecutive heartbeat send attempts stays below the watchdog timeout of
\* 500 ms: when a heartbeat is about to be attempted after an earlier
\* attempt, less than WATCHDOG_TIMEOUT has passed since that attempt began.
C12_AsStated ==
    (pc = "heartbeat" /\ drv.since_heartbeat >= HEARTBEAT_INTERVAL /\ drv.attempted)
        => drv.since_attempt < WATCHDOG_TIMEOUT

\* C13: whenever the loop reads a snapshot with is_running true and at least
\* one face, the snapshot carries frame_width and frame_height and the loop
\* calls Brain.run on those faces in that iteration.
C13_AsStated ==
    (drv.read.is_running /\ drv.read.has_faces)
        => (drv.read.has_size /\ drv.read.ran)

----------------------------------------------------------------------------
(* Further properties of Brain, checked under BrainSpec.                   *)

\* the step recorded is a call of Brain.run with detections
IsStep == step.box # <<>>

\* The target point lies inside the box shrunk to 80% of its width and
\* height about its own center, edges included: ten times the coordinate is
\* between ten times the near edge plus the width and ten times the far edge
\* minus the width.  tx, ty in PX units, the box in pixels.
InShrunkBox(box, tx, ty) ==
    /\ 10 * PX * box[1] + PX * (box[3] - box[1]) <= 10 * tx
    /\ 10 * tx <= 10 * PX * box[3] - PX * (box[3] - box[1])
    /\ 10 * PX * box[2] + PX * (box[4] - box[2]) <= 10 * ty
    /\ 10 * ty <= 10 * PX * box[4] - PX * (box[4] - box[2])

\* the target of the step in pixels of its frame (a fraction of the frame)
StepTargetOnBox ==
    InShrunkBox(step.box, (brain.target_x * step.w * PX) \div HUNDRED,
                          (brain.target_y * step.h * PX) \div HUNDRED)

\* C14: the fire flag of a step is true exactly when the target point, in
\* frame pixels, lies inside the selected box shrunk to 80% about its own
\* center, boundary included; the message sent is "1" when true and "0"
\* otherwise, and is_shooting holds the flag once it is sent.
C14_FireFlag ==
    IsStep =>
        /\ step.on_target <=> StepTargetOnBox
        /\ Len(step.handed) = 3 =>
              /\ step.handed[3] = <<"fire", IF StepTargetOnBox THEN 1 ELSE 0>>
              /\ brain.is_shooting <=> StepTargetOnBox

\* C14 witness: the target lies exactly on an edge of the shrunk box and
\* "1" was sent.
C14_Witness ==
    /\ IsStep
    /\ step.box = FaceOnEdge
    /\ 10 * PX * step.box[1] + PX * (step.box[3] - step.box[1])
          = 10 * ((brain.target_x * step.w * PX) \div HUNDRED)
    /\ Len(step.handed) = 3
    /\ step.handed[3] = <<"fire", 1>>

\* four times the squared distance of the center of a box from the center
\* (w/2, h/2) of the frame
CenterDist4(det, w, h) ==
    (det[1] + det[3] - w) * (det[1] + det[3] - w)
    + (det[2] + det[4] - h) * (det[2] + det[4] - h)

\* C15: from a non-empty detection list the box selected is one whose center
\* is nearest the frame center, and among the boxes equally near the first
\* in the order of the list.
C15_MostCentral ==
    IsStep =>
        \E k \in 1..Len(step.detections) :
            /\ step.detections[k] = step.box
            /\ \A i \in 1..Len(step.detections) :
                  CenterDist4(step.detections[i], step.w, step.h)
                      >= CenterDist4(step.box, step.w, step.h)
            /\ \A i \in 1..(k - 1) :
                  CenterDist4(step.detections[i], step.w, step.h)
                      > CenterDist4(step.box, step.w, step.h)

\* C15 witness: two boxes equally near the center, the first selected.
C15_Witness ==
    /\ IsStep
    /\ Len(step.detections) = 2
    /\ step.detections[1] # step.detections[2]
    /\ CenterDist4(step.detections[1], step.w, step.h)
          = CenterDist4(step.detections[2], step.w, step.h)
    /\ step.box = step.detections[1]

\* Configuration of the controller that the specification names and
\* src/brain.py does not have: the dead zone (1.5 degrees in the
\* specification's end-to-end example) and the per-frame step clamp (taken
\* as large as the angle of the image edge).
dead_zone_deg == (3 * DEG) \div 2
max_step_deg == MAX_THETA_DEG * DEG

\* C16: when both |pan_deg| and |tilt_deg| of a step are below dead_zone_deg
\* no integral step is applied, arm_x and arm_y are as before the step; when
\* the error exceeds dead_zone_deg a nonzero step is applied.
C16_AsStated ==
    IsStep =>
        /\ (Abs(brain.angle_delta_x_deg) < dead_zone_deg
              /\ Abs(brain.angle_delta_y_deg) < dead_zone_deg)
            => (brain.arm_x = step.prev.arm_x /\ brain.arm_y = step.prev.arm_y)
        /\ (Abs(brain.angle_delta_x_deg) > dead_zone_deg
              \/ Abs(brain.angle_delta_y_deg) > dead_zone_deg)
            => (step.pan # 0 \/ step.tilt # 0)

\* C17: in every step the amount added to arm_x and the amount added to
\* arm_y, before bounding, each have magnitude at most max_step_deg,
\* whatever the size of the pixel error.
C17_AsStated ==
    IsStep => (Abs(step.pan) <= max_step_deg /\ Abs(step.tilt) <= max_step_deg)

\* v (in DEG units) rounded to the nearest whole degree, halves upwards
RoundHalfUp(v) == ((2 * v + DEG) \div (2 * DEG)) * DEG

\* C18: every "x <v>" and "y <v>" message handed to the link carries a whole
\* number of degrees: the command (arm_x, arm_y) rounded to the nearest
\* integer, halves rounded up.
C18_AsStated ==
    \A i \in 1..Len(step.handed) :
        /\ step.handed[i][1] = "x" => step.handed[i][2] = RoundHalfUp(brain.arm_x)
        /\ step.handed[i][1] = "y" => step.handed[i][2] = RoundHalfUp(brain.arm_y)

Sign(a) == IF a > 0 THEN 1 ELSE IF a < 0 THEN 0 - 1 ELSE 0

----------------------------------------------------------------------------
(* Busy port, checked under LinkSpec.                                      *)

\* C20: when every open attempt of a connect or reconnect fails because the
\* port is busy, the failure surfaced to the caller is of a kind distinct
\* from the one surfaced for a generic open failure, at construction (what
\* _reconnect raises) and when the reconnect happens inside send_message
\* (what the call raises, against what it raises when the same opens fail
\* for another reason).
C20_AsStated ==
    /\ OpenError("busy") # OpenError("serial")
    /\ (IsSend /\ call.busy) => call.exc # call.excGeneric

----------------------------------------------------------------------------
(* Properties of the functions, checked under FnSpec.                      *)

\* C21: for every pixel offset d and every positive radius, max angle and
\* crop fraction, offset_to_angle(-d) = -offset_to_angle(d) and
\* offset_to_angle(0) = 0.
C21_OddFunction ==
    (fn.f = "offset_to_angle" /\ fn.applied)
        => /\ fn.at_minus_d = 0 - fn.at_d
           /\ fn.at_zero = 0

\* C21 witness: an offset that the radius does not divide, with a crop
\* fraction, gives a nonzero angle and its opposite.
C21_Witness ==
    /\ fn.f = "offset_to_angle"
    /\ fn.applied
    /\ fn.args.radius_px = 7
    /\ fn.args.crop_fraction = 33
    /\ fn.at_d > 0
    /\ fn.at_minus_d < 0

\* the error that offset_to_angle gives for an offset in the pixels of the
\* frame (PX units) with the circle radius of that frame
FrameAngle(delta, frame_width, frame_height, crop_fraction) ==
    LET f == IF crop_fraction # None THEN crop_fraction ELSE HUNDRED
    IN  Quot(Quot(delta * DEG,
                  circle_radius_px_from_frame(frame_width, frame_height))
                 * MAX_THETA_DEG * f,
             HUNDRED)

\* what rounding may change in an angle: 0.05 degree
AngleTolerance == DEG \div 20

\* C22: for every frame size and every target (normalized or absolute
\* pixels), the pan and tilt errors of a step equal offset_to_angle applied
\* to the frame-pixel offsets (centroid - target) with the circle radius
\* frame_width * K of the actual frame.
C22_AsStated ==
    (fn.f = "update_angles" /\ fn.applied) =>
        LET a == fn.args
            cx == ((a.box[1] + a.box[3]) * PX) \div 2
            cy == ((a.box[2] + a.box[4]) * PX) \div 2
            tx == TargetPx(a.target_x, a.frame_width)
            ty == TargetPx(a.target_y, a.frame_height)
        IN  /\ Abs(fn.angle_delta_x_deg
                   - FrameAngle(cx - tx, a.frame_width, a.frame_height,
                                a.crop_fraction)) <= AngleTolerance
            /\ Abs(fn.angle_delta_y_deg
                   - FrameAngle(cy - ty, a.frame_width, a.frame_height,
                                a.crop_fraction)) <= AngleTolerance

----------------------------------------------------------------------------
(* Properties of the detection process and its reader, checked under       *)
(* PipeSpec.                                                               *)

----------------------------------------------------------------------------
(* Further properties of the link, checked under LinkSpec.                 *)

\* C24: every reconnect attempt made from send_message, successful or
\* failed, records its time, so that a send issued less than
\* RECONNECT_BACKOFF_SEC after any reconnect attempt (its last open of the
\* port) on a still-Disconnected link fails without reopening the port.
C24_AsStated ==
    (IsSend /\ ~call.pre.connected /\ call.obs.since_try < RECONNECT_BACKOFF_SEC)
        => /\ call.result = "HDE"
           /\ TryTimes(call.ev) = {}

\* the events of a call that are write attempts, and open attempts
IsWrite(e) == e.e \in {"write_ok", "write_fail", "write_raise"}
IsOpen(e) == e.e \in {"open_ok", "open_fail"}

\* the open attempts of the reconnect that begins at event i of ev
OpensOf(ev, i) ==
    {j \in (i + 1)..Len(ev) :
        /\ IsOpen(ev[j])
        /\ \A k \in (i + 1)..j : ev[k].e # "reconnect"}

\* C25: every send_message call ends after a bounded amount of work: each
\* reconnect makes at most RECONNECT_MAX_ATTEMPTS open attempts and stops at
\* the first success, and one call performs at most two reconnects and at
\* most WRITE_RETRIES + 1 write attempts.
C25_BoundedWork ==
    IsSend =>
        /\ call.result \in {"return", "HDE", "other"}
        /\ Count(call.ev, "reconnect") <= 2
        /\ Cardinality({i \in 1..Len(call.ev) : IsWrite(call.ev[i])})
               <= WRITE_RETRIES + 1
        /\ \A i \in 1..Len(call.ev) :
             call.ev[i].e = "reconnect" =>
                /\ Cardinality(OpensOf(call.ev, i)) <= RECONNECT_MAX_ATTEMPTS
                /\ \A j \in OpensOf(call.ev, i) :
                     call.ev[j].e = "open_ok" =>
                        \A k \in OpensOf(call.ev, i) : k <= j

\* C25 witness: a call on a Disconnected link that reconnected, failed its
\* ten writes, reconnected again after failed opens and wrote once more.
C25_Witness ==
    /\ IsSend
    /\ Count(call.ev, "reconnect") = 2
    /\ Cardinality({i \in 1..Len(call.ev) : IsWrite(call.ev[i])}) = WRITE_RETRIES + 1
    /\ Count(call.ev, "open_fail") > 0
    /\ Count(call.ev, "open_ok") = 2

\* arm_y clamped into the tilt bounds
ClampTilt(v) ==
    IF v < ARM_Y_LO * DEG THEN ARM_Y_LO * DEG
    ELSE IF v > ARM_Y_HI * DEG THEN ARM_Y_HI * DEG ELSE v

\* C26: fix_arm_positions is total and idempotent: for any arm_x, arm_y it
\* yields arm_x in [-180, 180) congruent to the input modulo 360 and arm_y
\* clamped into [-20, 90], and applying it a second time changes nothing.
C26_AsStated ==
    (fn.f = "fix_arm_positions" /\ fn.applied) =>
        /\ ARM_X_LO * DEG <= fn.once[1]
        /\ fn.once[1] < ARM_X_HI * DEG
        /\ (fn.once[1] - fn.args.arm_x) % ((ARM_X_HI - ARM_X_LO) * DEG) = 0
        /\ fn.once[2] = ClampTilt(fn.args.arm_y)
        /\ fn.twice = fn.once

\* the call ended in a reconnect whose opens all failed
ReconnectFailed ==
    /\ IsSend
    /\ call.ev # <<>>
    /\ call.ev[Len(call.ev)].e = "open_fail"

\* C27: the link is marked Connected only if it holds an open port handle;
\* close() and every failed reconnect leave it Disconnected.
C27_ConnectedHasPort ==
    /\ api.connected => api.ser
    /\ call.op = "close" => ~api.connected
    /\ ReconnectFailed => ~api.connected

\* C27 witness: a send on a Connected link failed its writes and then its
\* reconnect, which left the link Disconnected without a handle.
C27_Witness ==
    /\ ReconnectFailed
    /\ call.pre.connected
    /\ call.pre.ser
    /\ ~api.connected
    /\ ~api.ser

----------------------------------------------------------------------------
(* Further properties of Brain, checked under BrainSpec.                   *)

\* the step recorded ended in an "x" or "y" send that raised
AbortedArmSend ==
    /\ step.raised # "none"
    /\ Len(step.handed) \in {1, 2}

\* C28: is_shooting equals the fire flag of the most recent fire message the
\* controller handed to the link (true iff that message was "1", false
\* before any); steps with no detections and steps aborted by a failed x or
\* y send leave is_shooting unchanged and hand over no fire message.
C28_ShootingIsLastFire ==
    /\ brain.is_shooting <=> brain.last_fire = 1
    /\ (step.empty \/ AbortedArmSend) =>
          /\ brain.is_shooting = step.prev.is_shooting
          /\ brain.last_fire = step.prev.last_fire
          /\ \A i \in 1..Len(step.handed) : step.handed[i][1] # "fire"

\* C28 witness: after a step that handed "1", a step whose "y" send raised
\* left is_shooting true.
C28_Witness ==
    /\ AbortedArmSend
    /\ Len(step.handed) = 2
    /\ step.on_target = FALSE
    /\ brain.is_shooting
    /\ brain.last_fire = 1

----------------------------------------------------------------------------
(* Further properties of the shared state, checked under PipeSpec.         *)

\* the snapshot that get_state returned: num_faces is the length of faces
\* and both belong to the frame named by timestamp_ms
Consistent(snap) ==
    /\ snap.num_faces.v = snap.faces.v
    /\ snap.num_faces.frame = snap.timestamp_ms.frame
    /\ snap.faces.frame = snap.timestamp_ms.frame

\* C29 as stated: every snapshot returned by get_state, taken while the
\* detection process publishes a new frame key by key, is internally
\* consistent.
C29_AsStated == pipe.rd.pc = "got" => Consistent(pipe.rd.snap)

\* C29 amended: a snapshot returned by get_state is internally consistent
\* when no publish overlaps the copy; one copied while a frame is published
\* key by key may mix the keys of different frames, none of num_faces and
\* faces older than the frame before the one named by timestamp_ms.
C29_Amended ==
    pipe.rd.pc = "got" =>
        /\ ~pipe.rd.overlap => Consistent(pipe.rd.snap)
        /\ pipe.rd.snap.num_faces.frame >= pipe.rd.snap.timestamp_ms.frame - 1
        /\ pipe.rd.snap.faces.frame >= pipe.rd.snap.timestamp_ms.frame - 1

\* C29 witness: a snapshot copied during a publish names frame 2 and holds
\* the faces of frame 1.
C29_Witness ==
    /\ pipe.rd.pc = "got"
    /\ pipe.rd.overlap
    /\ pipe.rd.snap.timestamp_ms.frame = 2
    /\ pipe.rd.snap.faces.frame = 1

\* C30: after request_quit() set quit_requested, the detection loop
\* observes it at the start of its next iteration, leaves the loop and
\* publishes is_running = False; if the shared-state connection is dead the
\* loop also exits, without raising.
C30_QuitObserved ==
    /\ ~pipe.det.passed
    /\ ~pipe.det.raised
    /\ pipe.det.pc \in {"capture", "write"} => pipe.det.left = "none"
    /\ pipe.det.left \in {"quit", "parent_gone"} => pipe.det.pc \in {"final", "done"}
    /\ (pipe.det.pc = "done" /\ pipe.conn) => ~pipe.shared.is_running.v

\* C30 witness: the loop left on quit_requested before the camera ran out
\* of frames, and is_running = False is published.
C30_Witness ==
    /\ pipe.det.left = "quit"
    /\ pipe.det.pc = "done"
    /\ pipe.det.frame = 1
    /\ pipe.conn
    /\ pipe.shared.quit_requested.v
    /\ ~pipe.shared.is_running.v

\* C30 witness for the dead connection: the loop left because the parent is
\* gone, and ended without raising.
C30_WitnessParentGone ==
    /\ pipe.det.left = "parent_gone"
    /\ pipe.det.pc = "done"
    /\ ~pipe.det.raised

====
